---- MODULE Spec2Model ----
(***************************************************************************)
(* Model of the x402 sample bot: the two-phase paid request (index.ts),    *)
(* the retry loops safePaidFetch (Meteora scripts) and tryWithRetry        *)
(* (opportunities script), the throttled call() wrapper with its run       *)
(* accounting, and the scripts that drive them.                            *)
(*                                                                         *)
(* Strings are sequences of one-character strings, so that the substring   *)
(* tests the code applies to error messages are computed, not assumed.     *)
(* Prices are kept in raw USDC units (10^-6 USDC), the unit of the quote.  *)
(***************************************************************************)
EXTENDS Integers, Sequences, FiniteSets

\* ------------------------------------------------------------------------
\* Bounds of the model
\* ------------------------------------------------------------------------

\* largest value of the retries parameter the harness passes to a retry loop
MaxRetries == 3

\* longest list a leaderboard endpoint returns (topPools, topLPs)
MaxItems == 2

\* ------------------------------------------------------------------------
\* Strings
\* ------------------------------------------------------------------------

Digits == <<"0","1","2","3","4","5","6","7","8","9">>

RECURSIVE ToString(_)
\* `${n}` for a non-negative integer n
ToString(n) ==
    IF n < 10 THEN <<Digits[n + 1]>>
    ELSE ToString(n \div 10) \o <<Digits[(n % 10) + 1]>>

\* String.prototype.includes
Includes(s, p) ==
    \E i \in 0..(Len(s) - Len(p)) : \A k \in 1..Len(p) : s[i + k] = p[k]

\* String.prototype.substring(0, n)
Substring0(s, n) ==
    IF Len(s) <= n THEN s ELSE SubSeq(s, 1, n)

S504 == <<"5","0","4">>
S500 == <<"5","0","0">>
S503 == <<"5","0","3">>
S429 == <<"4","2","9">>
STooManyRequests == <<"T","o","o"," ","M","a","n","y"," ","R","e","q","u","e","s","t","s">>
STimeout == <<"t","i","m","e","o","u","t">>

\* ------------------------------------------------------------------------
\* The remote service and the payment library, as seen by paidFetch
\* ------------------------------------------------------------------------

\* statuses the initial (unpaid) request can come back with
InitStatuses == {402, 200, 400, 429, 500, 503, 504}

\* statuses the paid resend can come back with
PaidStatuses == {200, 400, 429, 500, 503, 504}

\* quoted amounts, in raw USDC units (paymentRequired.accepts[0].amount)
Amounts == {1000, 2500}

\* answers to the initial request: a status, and with a 402 the quote
InitialResponses ==
    {[status |-> 402, amount |-> q] : q \in Amounts}
    \cup {[status |-> st, amount |-> 0] : st \in InitStatuses \ {402}}

\* length of the response-body excerpt kept in a payment error's message
ExcerptLen == 500

\* response bodies of an unsuccessful resend
BodyIds == {"plain", "rows", "ident", "slow", "long"}

BodyText(b) ==
    CASE b = "plain" -> <<"b","a","d"," ","r","e","q","u","e","s","t">>
      [] b = "rows"  -> <<"m","a","x"," ","5","0","0"," ","r","o","w","s">>
      [] b = "ident" -> <<"i","d"," ","5","0","4","3"," ","n","o","t"," ","f","o","u","n","d">>
      [] b = "slow"  -> <<"u","p","s","t","r","e","a","m"," ","t","i","m","e","o","u","t">>
      [] b = "long"  -> [i \in 1..(ExcerptLen + 2) |->
                            CASE i = ExcerptLen - 1 -> "5"
                              [] i = ExcerptLen     -> "0"
                              [] i = ExcerptLen + 1 -> "3"
                              [] OTHER              -> "x"]
      [] OTHER       -> <<>>

\* answers to the paid request: a 200 with the data (a list, of which the
\* model keeps the length), or another status with an error body
PaidResponses ==
    {[status |-> 200, body |-> "data", data |-> d] : d \in 0..MaxItems}
    \cup {[status |-> st, body |-> b, data |-> 0] :
              st \in PaidStatuses \ {200}, b \in BodyIds}

\* failures that are raised by the runtime or the payment library, not by
\* paidFetch itself: a rejected fetch, a JSON.parse of a malformed body, a
\* signer whose RPC is rate limited
OtherText(t) ==
    CASE t = "network" -> <<"f","e","t","c","h"," ","f","a","i","l","e","d">>
      [] t = "json"    -> <<"J","S","O","N"," ","P","a","r","s","e"," ","e","r","r","o","r">>
      [] t = "rpc429"  -> STooManyRequests
      [] t = "unreachable" -> <<"u","n","r","e","a","c","h","a","b","l","e">>
      [] OTHER         -> <<>>

NoErr == [kind |-> "none", status |-> 0, body |-> "none", text |-> "none"]

\* throw new Error(`Expected 402, got ${initial.status}`)
ProtocolErr(status) ==
    [kind |-> "protocol", status |-> status, body |-> "none", text |-> "none"]

\* throw new Error(`Payment failed (${paid.status}): ${paidText.substring(0, 500)}`)
PaymentErr(status, b) ==
    [kind |-> "payment", status |-> status, body |-> b, text |-> "none"]

OtherErr(t) ==
    [kind |-> "other", status |-> 0, body |-> "none", text |-> t]

\* err.message
Message(err) ==
    CASE err.kind = "protocol" ->
            <<"E","x","p","e","c","t","e","d"," ","4","0","2",","," ","g","o","t"," ">>
            \o ToString(err.status)
      [] err.kind = "payment" ->
            <<"P","a","y","m","e","n","t"," ","f","a","i","l","e","d"," ","(">>
            \o ToString(err.status) \o <<")",":"," ">>
            \o Substring0(BodyText(err.body), ExcerptLen)
      [] err.kind = "other" -> OtherText(err.text)
      [] OTHER -> <<>>

\* ------------------------------------------------------------------------
\* Failure classification of the two retry loops
\* ------------------------------------------------------------------------

\* safePaidFetch: const isRetryable = msg.includes("504") || ...
IsRetryable(msg) ==
    \/ Includes(msg, S504)
    \/ Includes(msg, S500)
    \/ Includes(msg, S503)
    \/ Includes(msg, S429)
    \/ Includes(msg, STooManyRequests)

\* variant: tryWithRetry with the markers of safePaidFetch added
IsTimeoutWide(msg) ==
    \/ Includes(msg, S504)
    \/ Includes(msg, STimeout)
    \/ Includes(msg, S503)
    \/ Includes(msg, S500)
    \/ Includes(msg, S429)
    \/ Includes(msg, STooManyRequests)

\* tryWithRetry: const isTimeout = msg.includes("504") || ...
IsTimeout(msg) ==
    \/ Includes(msg, S504)
    \/ Includes(msg, STimeout)
    \/ Includes(msg, S503)
\* variant: a backoff in steps of one second
BackoffShort(attempt) == (attempt + 1) * 1000

\* variant: a flat backoff
BackoffFlat(attempt) == 5000

\* const backoff = (attempt + 1) * 5000
Backoff(attempt) == (attempt + 1) * 5000

\* setTimeout(r, 3000) of tryWithRetry
RetryDelay == 3000

\* const CALL_DELAY_MS = 5000
CALL_DELAY_MS == 5000

\* ------------------------------------------------------------------------
\* State
\* ------------------------------------------------------------------------

VARIABLES
    script,      \* the program that runs: "safe", "try" (one retry loop called
                 \* once), "yield", "continue" (Meteora scripts), "opp"
    pc,          \* position of the script
    exitCode,    \* -1 while the process runs, then its exit status
    sleeping,    \* the pending sleep: "none", "throttle", "backoff"
    pf,          \* the pending await of paidFetch: "none", "initial",
                 \* "signing", "paid"
    price,       \* price parsed from the quote of the paidFetch in flight
    fn,          \* the retry loop in use: "none", "safe", "try"
    retries,     \* its retries parameter
    attempt,     \* its loop variable
    endpoint,    \* the path the current call is for
    totalCost,   \* let totalCost
    callCount,   \* let callCount
    nPools,      \* topPools.length
    nLPs,        \* topLPs.length
    idx,         \* position of the per-item loops
    feeResults,  \* feeResults, one entry per pool: TRUE iff fees is not null
    endpointUsed,\* let endpointUsed of run()
    printed,     \* what the end of the run printed
    \* history, not read by the program
    sleeps,      \* durations of the sleeps of the current loop invocation
    nAttempts,   \* paidFetch invocations of the current loop invocation
    nFails,      \* those of them that threw
    firstErr,    \* failure of its first attempt
    lastErr,     \* failure of its latest failed attempt
    allSignal,   \* every failed attempt of it carried a transient signal
    prev,        \* the latest completed loop invocation and how it ended,
                 \* until the next call() proceeds
    epOrder,     \* the endpoints requested so far, in order of their loops
    paidSum,     \* sum of the prices of the loop invocations that returned
    nCalls,      \* call() invocations made
    okCalls,     \* call() invocations that returned
    failedCalls, \* call() invocations that threw
    waited,      \* the throttle sleep the latest call() took before its request
    hs,          \* the handshake of the latest paidFetch invocation: its steps
                 \* in order and the statuses of its two responses
    \* the scripts that join two paidFetch in parallel
    branches,    \* the two branches of the Promise.all
    stderr,      \* what console.error (or the runtime, for an uncaught error)
                 \* wrote, in order
    args,        \* the arguments (path, options) of a paidFetch called alone
    sent,        \* the requests that paidFetch handed to fetch, in order
    \* history, continued
    nFetches,    \* paidFetch invocations of the whole run
    pace         \* the milliseconds slept since the latest paidFetch began, and
                 \* those slept between the one before it and it

vars == <<script, pc, exitCode, sleeping, pf, price, fn, retries, attempt,
          endpoint, totalCost, callCount, nPools, nLPs, idx, feeResults,
          endpointUsed, printed, sleeps, nAttempts, nFails, firstErr,
          lastErr, allSignal, prev, epOrder, paidSum, nCalls, okCalls,
          failedCalls, waited, hs, branches, stderr, args, sent, nFetches,
          pace>>

\* the current state as one record, so that the synchronous code between two
\* awaits composes as functions on states
Cur ==
    [script |-> script, pc |-> pc, exitCode |-> exitCode, sleeping |-> sleeping,
     pf |-> pf, price |-> price, fn |-> fn, retries |-> retries,
     attempt |-> attempt, endpoint |-> endpoint, totalCost |-> totalCost,
     callCount |-> callCount, nPools |-> nPools, nLPs |-> nLPs, idx |-> idx,
     feeResults |-> feeResults, endpointUsed |-> endpointUsed,
     printed |-> printed, sleeps |-> sleeps, nAttempts |-> nAttempts,
     nFails |-> nFails,
     firstErr |-> firstErr, lastErr |-> lastErr, allSignal |-> allSignal,
     prev |-> prev, epOrder |-> epOrder, paidSum |-> paidSum,
     nCalls |-> nCalls, okCalls |-> okCalls, failedCalls |-> failedCalls,
     waited |-> waited, hs |-> hs, branches |-> branches, stderr |-> stderr,
     args |-> args, sent |-> sent, nFetches |-> nFetches, pace |-> pace]

\* the next state is m
Become(m) ==
    /\ script' = m.script /\ pc' = m.pc /\ exitCode' = m.exitCode
    /\ sleeping' = m.sleeping /\ pf' = m.pf /\ price' = m.price
    /\ fn' = m.fn /\ retries' = m.retries /\ attempt' = m.attempt
    /\ endpoint' = m.endpoint /\ totalCost' = m.totalCost
    /\ callCount' = m.callCount /\ nPools' = m.nPools /\ nLPs' = m.nLPs
    /\ idx' = m.idx /\ feeResults' = m.feeResults
    /\ endpointUsed' = m.endpointUsed /\ printed' = m.printed
    /\ sleeps' = m.sleeps /\ nAttempts' = m.nAttempts /\ nFails' = m.nFails
    /\ firstErr' = m.firstErr /\ lastErr' = m.lastErr
    /\ allSignal' = m.allSignal /\ prev' = m.prev /\ epOrder' = m.epOrder
    /\ paidSum' = m.paidSum /\ nCalls' = m.nCalls /\ okCalls' = m.okCalls
    /\ failedCalls' = m.failedCalls /\ waited' = m.waited /\ hs' = m.hs
    /\ branches' = m.branches /\ stderr' = m.stderr
    /\ args' = m.args /\ sent' = m.sent /\ nFetches' = m.nFetches
    /\ pace' = m.pace

\* the state is m
Is(m) ==
    /\ script = m.script /\ pc = m.pc /\ exitCode = m.exitCode
    /\ sleeping = m.sleeping /\ pf = m.pf /\ price = m.price
    /\ fn = m.fn /\ retries = m.retries /\ attempt = m.attempt
    /\ endpoint = m.endpoint /\ totalCost = m.totalCost
    /\ callCount = m.callCount /\ nPools = m.nPools /\ nLPs = m.nLPs
    /\ idx = m.idx /\ feeResults = m.feeResults
    /\ endpointUsed = m.endpointUsed /\ printed = m.printed
    /\ sleeps = m.sleeps /\ nAttempts = m.nAttempts /\ nFails = m.nFails
    /\ firstErr = m.firstErr /\ lastErr = m.lastErr
    /\ allSignal = m.allSignal /\ prev = m.prev /\ epOrder = m.epOrder
    /\ paidSum = m.paidSum /\ nCalls = m.nCalls /\ okCalls = m.okCalls
    /\ failedCalls = m.failedCalls /\ waited = m.waited /\ hs = m.hs
    /\ branches = m.branches /\ stderr = m.stderr
    /\ args = m.args /\ sent = m.sent /\ nFetches = m.nFetches
    /\ pace = m.pace

\* the ways a retry loop ends
Returned(p, d) == [kind |-> "ok", err |-> NoErr, price |-> p, data |-> d]
Thrown(err) == [kind |-> "throw", err |-> err, price |-> 0, data |-> 0]
ReturnedNull == [kind |-> "null", err |-> NoErr, price |-> 0, data |-> 0]

NoPrev ==
    [ep |-> "none", fn |-> "none", retries |-> 0, nAttempts |-> 0,
     nFails |-> 0,
     sleeps |-> <<>>, firstErr |-> NoErr, lastErr |-> NoErr,
     allSignal |-> TRUE, trailing |-> FALSE,
     kind |-> "none", err |-> NoErr, price |-> 0, data |-> 0]

NoPrint == [what |-> "none", ep |-> "none", cost |-> 0, calls |-> 0,
            data |-> 0]

\* paidFetch(path) without options
NoArgs == [path |-> "/", method |-> "none", body |-> "none"]

\* no paidFetch yet, nothing slept
NoPace == [slept |-> 0, gap |-> -1, began |-> FALSE]

\* no step of the handshake taken yet
NoHs == [steps |-> <<>>, initial |-> 0, paid |-> 0, quote |-> 0, data |-> 0]

\* the branches of a parallel join, in the order of the array of Promise.all
Branches == {"A", "B"}

\* a branch before its paidFetch is called
NoBranch ==
    [pf |-> "none", price |-> 0, slot |-> "pending", data |-> 0,
     failed |-> FALSE, err |-> NoErr, quoted |-> 0]

Min(a, b) == IF a < b THEN a ELSE b

Blank(s) ==
    [script |-> s, pc |-> "start", exitCode |-> -1, sleeping |-> "none",
     pf |-> "none", price |-> 0, fn |-> "none", retries |-> 0, attempt |-> 0,
     endpoint |-> "none", totalCost |-> 0, callCount |-> 0, nPools |-> 0,
     nLPs |-> 0, idx |-> 0, feeResults |-> <<>>, endpointUsed |-> "none",
     printed |-> NoPrint, sleeps |-> <<>>, nAttempts |-> 0, nFails |-> 0,
     firstErr |-> NoErr,
     lastErr |-> NoErr, allSignal |-> TRUE, prev |-> NoPrev,
     epOrder |-> <<>>, paidSum |-> 0, nCalls |-> 0, okCalls |-> 0,
     failedCalls |-> 0, waited |-> 0, hs |-> NoHs,
     branches |-> [b \in Branches |-> NoBranch], stderr |-> <<>>,
     args |-> NoArgs, sent |-> <<>>, nFetches |-> 0, pace |-> NoPace]

\* the programs whose error history is recorded attempt by attempt; the
\* Meteora scripts, which make up to ten calls, record how each call ended
Detailed == {"safe", "try", "opp"}

\* a retry loop is between its entry and its exit
InLoop == pf # "none" \/ sleeping = "backoff"

\* the signals the specification calls transient: gateway timeout, service
\* unavailable, internal server error, rate limiting
TransientStatuses == {504, 503, 500, 429}

SignalsTransient(err) ==
    \/ err.kind \in {"protocol", "payment"} /\ err.status \in TransientStatuses
    \/ err.kind = "other" /\ err.text = "rpc429"

\* ------------------------------------------------------------------------
\* paidFetch and the retry loops: entry
\* ------------------------------------------------------------------------

\* the handshake step s of the paidFetch in flight is taken
Took(m, s) ==
    IF m.script \in Detailed THEN [m EXCEPT !.hs.steps = Append(@, s)] ELSE m

\* the paidFetch in flight read the status of its initial response
SawInitial(m, st) ==
    IF m.script \in Detailed THEN [m EXCEPT !.hs.initial = st] ELSE m

\* the paidFetch in flight read the status of its paid response
SawPaid(m, st) ==
    IF m.script \in Detailed THEN [m EXCEPT !.hs.paid = st] ELSE m

\* the paidFetch in flight parsed the amount q from the quote
Quoted(m, q) ==
    IF m.script \in Detailed THEN [m EXCEPT !.hs.quote = q] ELSE m

\* the paidFetch in flight parsed the data d from the body of the paid response
GotData(m, d) ==
    IF m.script \in Detailed THEN [m EXCEPT !.hs.data = d] ELSE m
\* ------------------------------------------------------------------------
\* paidFetch: the two requests it sends
\* ------------------------------------------------------------------------

BASE_URL == "https://agent.metengine.xyz"

\* the paths, methods and bodies paidFetch is called with; "none" is an
\* option left out, "lp" is the body of the LP profile call and "empty" is {}
Paths == {"/api/v1/platform/stats?timeframe=24h", "/api/v1/meteora/lps/profile"}

Methods == {"none", "GET", "POST"}

Bodies == {"none", "lp", "empty"}

ArgSets == [path : Paths, method : Methods, body : Bodies]

\* JSON.stringify(options.body)
Stringify(body) ==
    CASE body = "lp" -> "{\"owner\":\"w1\",\"pool_type\":\"all\",\"events_limit\":20}"
      [] body = "empty" -> "{}"

\* an object literal without properties
NoHeaders == [n \in {} |-> ""]

\* { ...a, ...b }: the properties of both, those of b winning
Spread(a, b) ==
    [n \in DOMAIN a \cup DOMAIN b |-> IF n \in DOMAIN b THEN b[n] ELSE a[n]]

\* what encodePaymentSignatureHeader returns: the signature under the header
\* name of the protocol version of the quote
PaymentHeaderSets ==
    {[n \in {"PAYMENT-SIGNATURE"} |-> "sig"], [n \in {"X-PAYMENT"} |-> "sig"]}

\* url and fetchOpts as paidFetch builds them from its arguments
FetchOpts(a) ==
    LET method == IF a.method = "none" THEN "GET" ELSE a.method
        opts == [url |-> BASE_URL \o a.path, method |-> method,
                 headers |-> NoHeaders, body |-> "none"]
    IN  IF a.body # "none"
        THEN [opts EXCEPT
                !.headers = [n \in {"Content-Type"} |-> "application/json"],
                !.body = Stringify(a.body)]
        ELSE opts

\* fetch(url, fetchOpts)
InitialRequest(a) == FetchOpts(a)

\* variant: the resend carries the payment headers only
ResendRequestBare(a, paymentHeaders) ==
    [FetchOpts(a) EXCEPT !.headers = paymentHeaders]

\* fetch(url, { ...fetchOpts, headers: { ...fetchOpts.headers,
\* ...paymentHeaders } })
ResendRequest(a, paymentHeaders) ==
    [FetchOpts(a) EXCEPT !.headers = Spread(@, paymentHeaders)]

\* the direct call of paidFetch records the requests it sends
Sent(m, req) ==
    IF m.script = "paid" THEN [m EXCEPT !.sent = Append(@, req)] ELSE m

\* paidFetch up to its first await: const initial = await fetch(url, fetchOpts)
StartPaidFetch(m) ==
    Took([Sent(m, InitialRequest(m.args))
               EXCEPT !.pf = "initial", !.price = 0, !.nAttempts = @ + 1,
                   !.hs = NoHs,
                   !.nFetches = IF m.script \in Detailed THEN @ + 1 ELSE @,
                   !.pace = [slept |-> 0, began |-> TRUE,
                             gap |-> IF m.pace.began THEN m.pace.slept
                                     ELSE -1]],
         "request")

\* variant: the retry sleep is taken before the first attempt too
TryIterateSleepFirst(m) ==
    IF m.attempt >= 0
    THEN [m EXCEPT !.sleeping = "backoff", !.sleeps = Append(@, RetryDelay)]
    ELSE StartPaidFetch(m)

\* top of the body of tryWithRetry's loop: the sleep of a retry, then paidFetch
TryIterate(m) ==
    IF m.attempt > 0
    THEN [m EXCEPT !.sleeping = "backoff", !.sleeps = Append(@, RetryDelay)]
    ELSE StartPaidFetch(m)

\* entry of safePaidFetch (f = "safe") or tryWithRetry (f = "try") with
\* retries = r >= 0, up to its first await
StartLoop(m, f, r, ep) ==
    LET m1 == [m EXCEPT !.fn = f, !.retries = r, !.attempt = 0,
                        !.endpoint = ep, !.epOrder = Append(@, ep),
                        !.sleeps = <<>>, !.nAttempts = 0, !.nFails = 0,
                        !.firstErr = NoErr, !.lastErr = NoErr,
                        !.allSignal = TRUE]
    IN  IF f = "safe" THEN StartPaidFetch(m1) ELSE TryIterate(m1)

\* ------------------------------------------------------------------------
\* call() of the Meteora scripts
\* ------------------------------------------------------------------------

\* variant: the call is not counted when it is issued
CallProceedNoCount(m) ==
    StartLoop([m EXCEPT !.sleeping = "none", !.prev = NoPrev,
                        !.waited = IF m.sleeping = "throttle"
                                   THEN CALL_DELAY_MS ELSE 0,
                        !.pace.slept = IF m.sleeping = "throttle"
                                       THEN @ + CALL_DELAY_MS ELSE @],
              "safe", 3, m.endpoint)

\* call() after its throttle: callCount++, then safePaidFetch(path, opts) with
\* the default retries = 3
CallProceed(m) ==
    StartLoop([m EXCEPT !.callCount = @ + 1, !.sleeping = "none",
                        !.prev = NoPrev,
                        !.waited = IF m.sleeping = "throttle"
                                   THEN CALL_DELAY_MS ELSE 0,
                        !.pace.slept = IF m.sleeping = "throttle"
                                       THEN @ + CALL_DELAY_MS ELSE @],
              "safe", 3, m.endpoint)
\* variant: the throttle sleep is taken only after a call that returned
CallStartAfterSuccess(m, at, ep) ==
    LET m1 == [m EXCEPT !.pc = at, !.endpoint = ep, !.nCalls = @ + 1]
    IN  IF m1.okCalls > 0
        THEN [m1 EXCEPT !.sleeping = "throttle"]
        ELSE CallProceed(m1)

\* call(label, path, opts) up to its first await
CallStart(m, at, ep) ==
    LET m1 == [m EXCEPT !.pc = at, !.endpoint = ep, !.nCalls = @ + 1]
    IN  IF m1.callCount > 0
        THEN [m1 EXCEPT !.sleeping = "throttle"]
        ELSE CallProceed(m1)

\* ------------------------------------------------------------------------
\* The scripts: what runs between the return of one call and the next await
\* ------------------------------------------------------------------------

\* an error nobody catches: the process ends with status 1 (top-level await
\* of the Meteora scripts; run().catch(...) / process.exit(1) of the others)
Crash(m) ==
    [m EXCEPT !.pc = "crash", !.exitCode = 1,
              !.stderr = Append(@, "Fatal error")]

\* the cost summary at the end of a Meteora script
Summary(m) ==
    [m EXCEPT !.pc = "end", !.exitCode = 0,
              !.printed = [what |-> "summary", ep |-> "none",
                           cost |-> m.totalCost,
                           calls |-> IF m.script = "yield"
                                     THEN 1 + Len(m.feeResults) + 1 + Min(m.nLPs, 3)
                                     ELSE m.callCount,
                           data |-> 0]]

\* for (const lp of lpsForProfile) with lpsForProfile = topLPs.slice(0, 3)
Step4Loop(m) ==
    IF m.idx < Min(m.nLPs, 3)
    THEN CallStart(m, "step4", "lps_profile")
    ELSE Summary(m)

\* const topLPsData = await call("Step 3: ...")
Step3(m) == CallStart(m, "step3", "lps_top")

\* for (const pool of poolsForFeeAnalysis) with topPools.slice(0, 5)
Step2Loop(m) ==
    IF m.idx < Min(m.nPools, 5)
    THEN CallStart(m, "step2", "fee_analysis")
    ELSE Step3(m)

\* variant: step 1 falls back only after a failure its loop retried to the end
ScriptResumeGuarded(m, out) ==
    CASE m.pc = "step1" ->
            IF out.kind = "ok"
            THEN Step2Loop([m EXCEPT !.nPools = out.data, !.idx = 0])
            ELSE IF IsRetryable(Message(out.err))
            THEN CallStart(m, "step1fb", "pools_volume")
            ELSE Crash(m)
      [] m.pc = "step1fb" ->
            IF out.kind = "ok"
            THEN Step2Loop([m EXCEPT !.nPools = out.data, !.idx = 0])
            ELSE Crash(m)
      [] m.pc = "step2" ->
            Step2Loop([m EXCEPT !.feeResults = Append(@, out.kind = "ok"),
                                !.idx = @ + 1])
      [] m.pc = "step3" ->
            IF out.kind = "ok"
            THEN Step4Loop([m EXCEPT !.nLPs = out.data, !.idx = 0])
            ELSE Crash(m)
      [] m.pc = "step4" ->
            Step4Loop([m EXCEPT !.idx = @ + 1])
      [] OTHER -> m
\* variant: a pool whose fee analysis failed gets no entry
ScriptResumeSkipping(m, out) ==
    CASE m.pc = "step1" ->
            IF out.kind = "ok"
            THEN Step2Loop([m EXCEPT !.nPools = out.data, !.idx = 0])
            ELSE CallStart(m, "step1fb", "pools_volume")
      [] m.pc = "step1fb" ->
            IF out.kind = "ok"
            THEN Step2Loop([m EXCEPT !.nPools = out.data, !.idx = 0])
            ELSE Crash(m)
      [] m.pc = "step2" ->
            IF out.kind = "ok"
            THEN Step2Loop([m EXCEPT !.feeResults = Append(@, TRUE),
                                     !.idx = @ + 1])
            ELSE Step2Loop([m EXCEPT !.idx = @ + 1])
      [] m.pc = "step3" ->
            IF out.kind = "ok"
            THEN Step4Loop([m EXCEPT !.nLPs = out.data, !.idx = 0])
            ELSE Crash(m)
      [] m.pc = "step4" ->
            Step4Loop([m EXCEPT !.idx = @ + 1])
      [] OTHER -> m

\* variant: a failed call of a per-item loop ends the run
ScriptResumeStrict(m, out) ==
    CASE m.pc = "step1" ->
            IF out.kind = "ok"
            THEN Step2Loop([m EXCEPT !.nPools = out.data, !.idx = 0])
            ELSE CallStart(m, "step1fb", "pools_volume")
      [] out.kind # "ok" -> Crash(m)
      [] m.pc = "step1fb" ->
            Step2Loop([m EXCEPT !.nPools = out.data, !.idx = 0])
      [] m.pc = "step2" ->
            Step2Loop([m EXCEPT !.feeResults = Append(@, TRUE),
                                !.idx = @ + 1])
      [] m.pc = "step3" ->
            Step4Loop([m EXCEPT !.nLPs = out.data, !.idx = 0])
      [] m.pc = "step4" ->
            Step4Loop([m EXCEPT !.idx = @ + 1])
      [] OTHER -> m

\* a Meteora script after the call() it awaited returned or threw
ScriptResume(m, out) ==
    CASE m.pc = "step1" ->
            IF out.kind = "ok"
            THEN Step2Loop([m EXCEPT !.nPools = out.data, !.idx = 0])
            ELSE CallStart(m, "step1fb", "pools_volume")
      [] m.pc = "step1fb" ->
            IF out.kind = "ok"
            THEN Step2Loop([m EXCEPT !.nPools = out.data, !.idx = 0])
            ELSE Crash(m)
      [] m.pc = "step2" ->
            Step2Loop([m EXCEPT !.feeResults = Append(@, out.kind = "ok"),
                                !.idx = @ + 1])
      [] m.pc = "step3" ->
            IF out.kind = "ok"
            THEN Step4Loop([m EXCEPT !.nLPs = out.data, !.idx = 0])
            ELSE Crash(m)
      [] m.pc = "step4" ->
            Step4Loop([m EXCEPT !.idx = @ + 1])
      [] OTHER -> m

\* call() after safePaidFetch returned or threw: totalCost += price; return data
CallReturn(m, out) ==
    IF out.kind = "ok"
    THEN ScriptResume([m EXCEPT !.totalCost = @ + out.price,
                                !.okCalls = @ + 1], out)
    ELSE ScriptResume([m EXCEPT !.failedCalls = @ + 1], out)
\* variant: the report names the endpoint the run started with
ReportPrimary(m, out) ==
    [m EXCEPT !.pc = "end", !.exitCode = 0,
              !.printed = [what |-> "result", ep |-> "PRIMARY",
                           cost |-> out.price, calls |-> 0,
                           data |-> out.data]]
\* query.ts: the endpoints of its three paidFetch, in order
QueryPlan == <<"top_performers", "niche_crypto", "niche_tech">>

\* query.ts calls paidFetch for the k-th endpoint of its plan
QueryFetch(m, k) ==
    StartPaidFetch([m EXCEPT !.pc = "query", !.idx = k,
                             !.endpoint = QueryPlan[k],
                             !.epOrder = Append(@, QueryPlan[k])])

\* variant: the requests that follow the first are issued together
QueryResumeEager(m, out) ==
    IF out.kind = "throw"
    THEN Crash(m)
    ELSE IF m.idx = 1
    THEN [QueryFetch([m EXCEPT !.okCalls = @ + 1], 2) EXCEPT
              !.branches["A"].pf = "initial"]
    ELSE [m EXCEPT !.pc = "end", !.exitCode = 0]

\* query.ts after a paidFetch it awaited returned or threw: the price is
\* kept (p1, p2, p3), the next request follows, the total is printed at the
\* end; nothing catches a failure
QueryResume(m, out) ==
    IF out.kind = "throw"
    THEN Crash(m)
    ELSE LET m1 == [m EXCEPT !.totalCost = @ + out.price, !.okCalls = @ + 1]
         IN  IF m.idx < Len(QueryPlan)
             THEN QueryFetch(m1, m.idx + 1)
             ELSE [m1 EXCEPT !.pc = "end", !.exitCode = 0,
                             !.printed = [what |-> "total", ep |-> "none",
                                          cost |-> m1.totalCost, calls |-> 0,
                                          data |-> 0]]

\* the report at the end of run()
Report(m, out) ==
    [m EXCEPT !.pc = "end", !.exitCode = 0,
              !.printed = [what |-> "result", ep |-> m.endpointUsed,
                           cost |-> out.price, calls |-> 0,
                           data |-> out.data]]

\* variant: run() falls back when the primary threw, too
RunResumeFallbackOnThrow(m, out) ==
    CASE m.pc = "primary" ->
            LET m1 == [m EXCEPT !.endpointUsed = "PRIMARY"]
            IN  IF out.kind # "ok"
                THEN StartLoop([m1 EXCEPT !.pc = "fallback",
                                          !.endpointUsed = "FALLBACK"],
                               "try", 1, "FALLBACK")
                ELSE Report(m1, out)
      [] out.kind = "throw" -> Crash(m)
      [] m.pc = "fallback" ->
            IF out.kind = "null"
            THEN [m EXCEPT !.pc = "timedout", !.exitCode = 1,
                           !.stderr = Append(@, "Both endpoints timed out")]
            ELSE Report(m, out)
      [] OTHER -> m
\* variant: the fallback endpoint is given two retries
RunResumeLongFallback(m, out) ==
    CASE out.kind = "throw" -> Crash(m)
      [] m.pc = "primary" ->
            LET m1 == [m EXCEPT !.endpointUsed = "PRIMARY"]
            IN  IF out.kind = "null"
                THEN StartLoop([m1 EXCEPT !.pc = "fallback",
                                          !.endpointUsed = "FALLBACK"],
                               "try", 2, "FALLBACK")
                ELSE Report(m1, out)
      [] m.pc = "fallback" ->
            IF out.kind = "null"
            THEN [m EXCEPT !.pc = "timedout", !.exitCode = 1,
                           !.stderr = Append(@, "Both endpoints timed out")]
            ELSE Report(m, out)
      [] OTHER -> m

\* run() of the opportunities script after a tryWithRetry returned or threw
RunResume(m, out) ==
    CASE out.kind = "throw" -> Crash(m)
      [] m.pc = "primary" ->
            LET m1 == [m EXCEPT !.endpointUsed = "PRIMARY"]
            IN  IF out.kind = "null"
                THEN StartLoop([m1 EXCEPT !.pc = "fallback",
                                          !.endpointUsed = "FALLBACK"],
                               "try", 1, "FALLBACK")
                ELSE Report(m1, out)
      [] m.pc = "fallback" ->
            IF out.kind = "null"
            THEN [m EXCEPT !.pc = "timedout", !.exitCode = 1,
                           !.stderr = Append(@, "Both endpoints timed out")]
            ELSE Report(m, out)
      [] OTHER -> m

\* ------------------------------------------------------------------------
\* The retry loops: exit, catch blocks, next iteration
\* ------------------------------------------------------------------------

\* the loop returns or throws, and its caller goes on
LoopExit(m, out, trailing) ==
    LET m1 == [m EXCEPT
                 !.prev = [ep |-> m.endpoint, fn |-> m.fn,
                           retries |-> m.retries, nAttempts |-> m.nAttempts,
                           nFails |-> m.nFails,
                           sleeps |-> m.sleeps, firstErr |-> m.firstErr,
                           lastErr |-> m.lastErr, allSignal |-> m.allSignal,
                           trailing |-> trailing,
                           kind |-> out.kind, err |-> out.err,
                           price |-> out.price, data |-> out.data],
                 !.paidSum = @ + out.price,
                 !.pf = "none", !.sleeping = "none", !.price = 0,
                 !.fn = "none", !.retries = 0, !.attempt = 0,
                 !.sleeps = <<>>, !.nAttempts = 0, !.nFails = 0,
                 !.firstErr = NoErr,
                 !.lastErr = NoErr, !.allSignal = TRUE]
    IN  CASE m.script \in {"yield", "continue"} -> CallReturn(m1, out)
          [] m.script = "opp" -> RunResume(m1, out)
          [] m.script = "query" -> QueryResume(m1, out)
          [] OTHER -> [m1 EXCEPT !.pc = "done"]

\* variant: every failure is retried while attempts remain
SafeCatchRetryAll(m, err) ==
    IF m.attempt < m.retries
    THEN [m EXCEPT !.sleeping = "backoff", !.pf = "none",
                   !.sleeps = Append(@, Backoff(m.attempt))]
    ELSE LoopExit(m, Thrown(err), FALSE)

\* variant: the quoted price of an attempt that failed is accounted
SafeCatchCharging(m, err) ==
    LET isRetryable == IsRetryable(Message(err))
    IN  IF m.attempt < m.retries /\ isRetryable
        THEN [m EXCEPT !.sleeping = "backoff", !.pf = "none",
                       !.totalCost = @ + m.price,
                       !.sleeps = Append(@, Backoff(m.attempt))]
        ELSE LoopExit(m, Thrown(err), FALSE)
\* variant: safePaidFetch throws the failure of its first attempt
SafeCatchThrowFirst(m, err) ==
    LET isRetryable == IsRetryable(Message(err))
    IN  IF m.attempt < m.retries /\ isRetryable
        THEN [m EXCEPT !.sleeping = "backoff", !.pf = "none",
                       !.sleeps = Append(@, Backoff(m.attempt))]
        ELSE LoopExit(m, Thrown(m.firstErr), FALSE)
\* variant: safePaidFetch also sleeps after the failure of its last attempt
SafeCatchOffByOne(m, err) ==
    LET isRetryable == IsRetryable(Message(err))
    IN  IF m.attempt <= m.retries /\ isRetryable
        THEN [m EXCEPT !.sleeping = "backoff", !.pf = "none",
                       !.sleeps = Append(@, Backoff(m.attempt))]
        ELSE LoopExit(m, Thrown(err), FALSE)

\* catch block of safePaidFetch
SafeCatch(m, err) ==
    LET isRetryable == IsRetryable(Message(err))
    IN  IF m.attempt < m.retries /\ isRetryable
        THEN [m EXCEPT !.sleeping = "backoff", !.pf = "none",
                       !.sleeps = Append(@, Backoff(m.attempt))]
        ELSE LoopExit(m, Thrown(err), FALSE)
\* variant: tryWithRetry throws the failure of its last attempt
TryCatchThrowLast(m, err) ==
    LET isTimeout == IsTimeout(Message(err))
    IN  IF isTimeout /\ m.attempt < m.retries
        THEN LET m1 == [m EXCEPT !.attempt = @ + 1, !.pf = "none"]
             IN  IF m1.attempt <= m1.retries
                 THEN TryIterate(m1)
                 ELSE LoopExit(m1, ReturnedNull, TRUE)
        ELSE LoopExit(m, Thrown(err), FALSE)
\* variant: tryWithRetry returns null for whatever failure uses up its
\* attempts
TryCatchNullWhenSpent(m, err) ==
    LET isTimeout == IsTimeout(Message(err))
    IN  IF isTimeout /\ m.attempt < m.retries
        THEN LET m1 == [m EXCEPT !.attempt = @ + 1, !.pf = "none"]
             IN  IF m1.attempt <= m1.retries
                 THEN TryIterate(m1)
                 ELSE LoopExit(m1, ReturnedNull, TRUE)
        ELSE IF isTimeout \/ m.attempt = m.retries
        THEN LoopExit(m, ReturnedNull, FALSE)
        ELSE LoopExit(m, Thrown(err), FALSE)

\* catch block of tryWithRetry; its continue runs attempt++ and the loop test
TryCatch(m, err) ==
    LET isTimeout == IsTimeout(Message(err))
    IN  IF isTimeout /\ m.attempt < m.retries
        THEN LET m1 == [m EXCEPT !.attempt = @ + 1, !.pf = "none"]
             IN  IF m1.attempt <= m1.retries
                 THEN TryIterate(m1)
                 ELSE LoopExit(m1, ReturnedNull, TRUE)
        ELSE IF isTimeout
        THEN LoopExit(m, ReturnedNull, FALSE)
        ELSE LoopExit(m, Thrown(err), FALSE)

\* paidFetch threw err inside the try block of the loop
OnFailure(m, err) ==
    LET m1 == IF m.script \in Detailed
              THEN [m EXCEPT !.nFails = @ + 1, !.lastErr = err,
                             !.firstErr = IF m.nAttempts = 1 THEN err ELSE @,
                             !.allSignal = @ /\ SignalsTransient(err)]
              ELSE [m EXCEPT !.nFails = @ + 1]
    IN  CASE m.fn = "safe" -> SafeCatch(m1, err)
          [] m.fn = "try"  -> TryCatch(m1, err)
          [] OTHER         -> LoopExit(m1, Thrown(err), FALSE)
\* variant: after a success the loop goes on to its next iteration while
\* attempts remain
OnSuccessKeepGoing(m, d) ==
    IF m.attempt < m.retries
    THEN LET m1 == [m EXCEPT !.attempt = @ + 1, !.pf = "none"]
         IN  IF m.fn = "safe" THEN StartPaidFetch(m1) ELSE TryIterate(m1)
    ELSE LoopExit(m, Returned(m.price, d), FALSE)

\* paidFetch returned inside the try block of the loop:
\* return { data: result.data, price: result.price } / return result
OnSuccess(m, d) == LoopExit(m, Returned(m.price, d), FALSE)

\* after the backoff sleep: safePaidFetch's continue (attempt++ and the loop
\* test, then paidFetch or the statement after the loop); tryWithRetry goes
\* on to paidFetch
AfterBackoff(m) ==
    LET m0 == [m EXCEPT !.sleeping = "none",
                        !.pace.slept = @ + m.sleeps[Len(m.sleeps)]]
    IN  IF m.fn = "safe"
        THEN LET m1 == [m0 EXCEPT !.attempt = @ + 1]
             IN  IF m1.attempt <= m1.retries
                 THEN StartPaidFetch(m1)
                 ELSE LoopExit(m1, Thrown(OtherErr("unreachable")), TRUE)
        ELSE StartPaidFetch(m0)

\* ------------------------------------------------------------------------
\* Actions: one per await that completes
\* ------------------------------------------------------------------------
\* ------------------------------------------------------------------------
\* The scripts that join two paidFetch in parallel: pressure/pairs with
\* pressure/summary ("pressure"), trades/whales with smart-wallets/signals
\* ("bias"). Neither uses a retry loop.
\* ------------------------------------------------------------------------

JoinScripts == {"pressure", "bias"}

\* what the catch handler of a branch writes before err.message
BranchLabel(s, b) ==
    CASE s = "pressure" /\ b = "A" -> "pressure/pairs error:"
      [] s = "pressure" /\ b = "B" -> "pressure/summary error:"
      [] s = "bias" /\ b = "A"     -> "trades/whales error:"
      [] OTHER                     -> "smart-wallets/signals error:"
\* variant: the price a branch was quoted counts, whatever became of it
SlotPriceQuoted(br) == br.quoted

\* (xResult?.price ?? 0)
SlotPrice(br) == IF br.slot = "result" THEN br.price ELSE 0

\* main() up to await Promise.all([...]): each paidFetch runs to its first
\* await
JoinStart(m) ==
    [m EXCEPT !.pc = "join",
              !.branches = [b \in Branches |-> [NoBranch EXCEPT !.pf = "initial"]]]

\* main() after the join: once both branches are settled the sections of the
\* results that are not null are printed, then the total cost
JoinResume(m) ==
    IF \A b \in Branches : m.branches[b].slot # "pending"
    THEN [m EXCEPT !.pc = "end", !.exitCode = 0,
                   !.printed = [what |-> "total", ep |-> "none",
                                cost |-> SlotPrice(m.branches["A"])
                                         + SlotPrice(m.branches["B"]),
                                calls |-> 0, data |-> 0]]
    ELSE m

\* variant: a branch without its catch handler, whose rejection rejects the
\* join
BranchFailAborting(m, b, err) ==
    Crash([m EXCEPT !.branches[b] =
                        [pf |-> "none", price |-> 0, slot |-> "pending",
                         data |-> 0, failed |-> TRUE, err |-> err,
                         quoted |-> m.branches[b].quoted]])

\* the paidFetch of branch b rejects: .catch((err) => { console.error(...);
\* return null; })
BranchFail(m, b, err) ==
    JoinResume([m EXCEPT !.branches[b] =
                             [pf |-> "none", price |-> 0, slot |-> "null",
                              data |-> 0, failed |-> TRUE, err |-> err,
                              quoted |-> m.branches[b].quoted],
                         !.stderr = Append(@, BranchLabel(m.script, b))])

\* the paidFetch of branch b returns { data, settlement, price }
BranchOk(m, b, d) ==
    JoinResume([m EXCEPT !.branches[b].pf = "none",
                         !.branches[b].slot = "result",
                         !.branches[b].data = d])

\* the steps of the paidFetch of branch b
BranchInitialResponse(b) ==
    /\ pc = "join" /\ branches[b].pf = "initial"
    /\ \E initial \in InitialResponses :
         Become(IF initial.status # 402
                THEN BranchFail(Cur, b, ProtocolErr(initial.status))
                ELSE [Cur EXCEPT !.branches[b].pf = "signing",
                                 !.branches[b].price = initial.amount,
                                 !.branches[b].quoted = initial.amount])

BranchInitialThrows(b) ==
    /\ pc = "join" /\ branches[b].pf = "initial"
    /\ \E t \in {"network", "json"} : Become(BranchFail(Cur, b, OtherErr(t)))

BranchSignResolved(b) ==
    /\ pc = "join" /\ branches[b].pf = "signing"
    /\ Become([Cur EXCEPT !.branches[b].pf = "paid"])

BranchSignRejected(b) ==
    /\ pc = "join" /\ branches[b].pf = "signing"
    /\ Become(BranchFail(Cur, b, OtherErr("rpc429")))

BranchPaidResponse(b) ==
    /\ pc = "join" /\ branches[b].pf = "paid"
    /\ \E paid \in PaidResponses :
         Become(IF paid.status # 200
                THEN BranchFail(Cur, b, PaymentErr(paid.status, paid.body))
                ELSE BranchOk(Cur, b, paid.data))

BranchPaidThrows(b) ==
    /\ pc = "join" /\ branches[b].pf = "paid"
    /\ \E t \in {"network", "json"} : Become(BranchFail(Cur, b, OtherErr(t)))

BranchStep(b) ==
    \/ BranchInitialResponse(b)
    \/ BranchInitialThrows(b)
    \/ BranchSignResolved(b)
    \/ BranchSignRejected(b)
    \/ BranchPaidResponse(b)
    \/ BranchPaidThrows(b)

\* the program starts and runs to its first await
Begin ==
    /\ pc = "start"
    /\ Become(CASE script \in {"safe", "try"} ->
                      StartLoop([Cur EXCEPT !.pc = "loop"], script, retries, "harness")
                [] script = "yield" -> CallStart(Cur, "step1", "pools_fees")
                [] script = "continue" -> Step3(Cur)
                [] script \in JoinScripts -> JoinStart(Cur)
                [] script = "query" -> QueryFetch(Cur, 1)
                [] script = "paid" -> StartPaidFetch([Cur EXCEPT !.pc = "call"])
                [] OTHER -> StartLoop([Cur EXCEPT !.pc = "primary"], "try", 1, "PRIMARY"))

\* await sleep(CALL_DELAY_MS) of call() completes
ThrottleDone ==
    /\ sleeping = "throttle"
    /\ Become(CallProceed(Cur))

\* the sleep before a retry completes
BackoffDone ==
    /\ sleeping = "backoff"
    /\ Become(AfterBackoff(Cur))
\* variant: the status of the initial response is not checked
InitialResponseUnchecked ==
    /\ pf = "initial"
    /\ \E initial \in InitialResponses :
         LET m == SawInitial(Cur, initial.status)
         IN  Become(Took(Took([m EXCEPT !.pf = "signing",
                                        !.price = initial.amount],
                              "quote"), "sign"))

\* the initial request is answered: anything but 402 is an error, a 402
\* carries the quote
InitialResponse ==
    /\ pf = "initial"
    /\ \E initial \in InitialResponses :
         LET m == SawInitial(Cur, initial.status)
         IN  Become(IF initial.status # 402
                    THEN OnFailure(m, ProtocolErr(initial.status))
                    ELSE Took(Took(Quoted([m EXCEPT !.pf = "signing",
                                                    !.price = initial.amount],
                                          initial.amount),
                                   "quote"), "sign"))

\* the initial fetch rejects, or the 402 body is not a parsable quote
InitialThrows ==
    /\ pf = "initial"
    /\ \E t \in {"network", "json"} :
         Become(IF t = "json"
                THEN OnFailure(Took(SawInitial(Cur, 402), "quote"), OtherErr(t))
                ELSE OnFailure(Cur, OtherErr(t)))

\* createPaymentPayload resolves and the request is sent again with the
\* payment headers
SignResolved ==
    /\ pf = "signing"
    /\ \E paymentHeaders \in PaymentHeaderSets :
         Become(Took(Sent([Cur EXCEPT !.pf = "paid"],
                          ResendRequest(args, paymentHeaders)), "resend"))

\* createPaymentPayload rejects: the signer's RPC is rate limited
SignRejected ==
    /\ pf = "signing"
    /\ Become(OnFailure(Cur, OtherErr("rpc429")))
\* variant: only a server error of the resend is a failure
PaidResponseLenient ==
    /\ pf = "paid"
    /\ \E paid \in PaidResponses :
         LET m == SawPaid(Cur, paid.status)
         IN  Become(IF paid.status >= 500
                    THEN OnFailure(m, PaymentErr(paid.status, paid.body))
                    ELSE OnSuccess(m, paid.data))

\* the paid request is answered
PaidResponse ==
    /\ pf = "paid"
    /\ \E paid \in PaidResponses :
         LET m == SawPaid(Cur, paid.status)
         IN  Become(IF paid.status # 200
                    THEN OnFailure(m, PaymentErr(paid.status, paid.body))
                    ELSE OnSuccess(GotData(m, paid.data), paid.data))

\* the paid fetch rejects, or the 200 body is not JSON
PaidThrows ==
    /\ pf = "paid"
    /\ \E t \in {"network", "json"} :
         Become(IF t = "json"
                THEN OnFailure(SawPaid(Cur, 200), OtherErr(t))
                ELSE OnFailure(Cur, OtherErr(t)))

PaidFetchStep ==
    \/ InitialResponse
    \/ InitialThrows
    \/ SignResolved
    \/ SignRejected
    \/ PaidResponse
    \/ PaidThrows

\* ------------------------------------------------------------------------
\* Specifications
\* ------------------------------------------------------------------------

\* one retry loop, called once with a retries parameter of 0..MaxRetries
InitRetry ==
    \E s \in {"safe", "try"}, r \in 0..MaxRetries :
        Is([Blank(s) EXCEPT !.retries = r])

\* the opportunities script
InitOpp == Is(Blank("opp"))

\* the two Meteora scripts
InitMeteora == \E s \in {"yield", "continue"} : Is(Blank(s))

\* the two scripts with a parallel join
InitJoin == \E s \in JoinScripts : Is(Blank(s))

NextRetry ==
    \/ Begin
    \/ BackoffDone
    \/ PaidFetchStep

NextMeteora ==
    \/ NextRetry
    \/ ThrottleDone

NextJoin ==
    \/ Begin
    \/ \E b \in Branches : BranchStep(b)

SpecRetry == InitRetry /\ [][NextRetry]_vars

\* paidFetch called once, directly, with any of the argument sets
InitRequest == \E a \in ArgSets : Is([Blank("paid") EXCEPT !.args = a])

NextRequest ==
    \/ Begin
    \/ PaidFetchStep

SpecRequest == InitRequest /\ [][NextRequest]_vars

SpecOpp == InitOpp /\ [][NextRetry]_vars

SpecMeteora == InitMeteora /\ [][NextMeteora]_vars

SpecJoin == InitJoin /\ [][NextJoin]_vars

\* the scripts that await one paidFetch at a time: the Meteora scripts, the
\* opportunities script, query.ts
InitSequential ==
    \E s \in {"yield", "continue", "opp", "query"} : Is(Blank(s))

SpecSequential == InitSequential /\ [][NextMeteora]_vars

\* a retry loop called once, or the opportunities script, when every
\* paidFetch and every sleep that is awaited completes
InitTerminating == InitRetry \/ InitOpp

\* an await is pending: the state predicate that ENABLED <<NextRetry>>_vars is
Pending == pc = "start" \/ InLoop

\* weak fairness of NextRetry, WF_vars(NextRetry), written out as
\* []<>~ENABLED <<NextRetry>>_vars \/ []<><<NextRetry>>_vars: the steps of a
\* behaviour of [][NextRetry]_vars that change vars are its NextRetry steps
AwaitsComplete == []<>(~Pending) \/ []<><<TRUE>>_vars

SpecTerminating ==
    InitTerminating /\ [][NextRetry]_vars /\ AwaitsComplete

\* ------------------------------------------------------------------------
\* Properties
\* ------------------------------------------------------------------------

Meteora == {"yield", "continue"}

\* the process has ended: no call is in flight and none will follow
Ended == pc \in {"end", "crash", "timedout", "done"}

MinAmount == CHOOSE a \in Amounts : \A b \in Amounts : a <= b
MaxAmount == CHOOSE a \in Amounts : \A b \in Amounts : a >= b

\* C1: in the Meteora scripts totalCost is, after any sequence of call()
\* invocations, the sum of the prices of exactly the invocations whose
\* safePaidFetch returned a result, each price added once; an attempt that
\* failed or was retried, and a call that threw, add nothing.
C1_TotalCostIsSumOfReturned ==
    script \in Meteora =>
        /\ totalCost = paidSum
        /\ okCalls * MinAmount <= totalCost
        /\ totalCost <= okCalls * MaxAmount

\* a call that returned after a failed attempt, after another call threw
C1_Witness ==
    /\ script \in Meteora
    /\ okCalls > 1 /\ failedCalls > 0
    /\ prev.kind = "ok" /\ prev.nFails > 0
    /\ totalCost > 0

\* C2 as stated: callCount counts the calls that ended successfully, so that
\* with no call in flight it equals the number of calls that added to
\* totalCost.
C2_CountsSuccessfulCalls ==
    (script \in Meteora /\ Ended) => callCount = okCalls

\* C2, amended: callCount is incremented once per call() invocation, when the
\* call is issued after its throttle sleep, whether the call later returns or
\* throws; with no call in flight it is the number of calls made, successful
\* and failed together.
C2_CountsCallsMade ==
    script \in Meteora =>
        /\ callCount = nCalls - (IF sleeping = "throttle" THEN 1 ELSE 0)
        /\ ~InLoop /\ sleeping = "none" => callCount = okCalls + failedCalls

\* a run that ended after calls that failed and calls that succeeded
C2_Witness ==
    /\ script \in Meteora /\ pc = "end"
    /\ failedCalls > 0 /\ okCalls > 0
    /\ callCount = okCalls + failedCalls

\* the multiples of 5000 ms up to the n-th
LinearDelays(n) == [k \in 1..n |-> k * 5000]

\* C3: safePaidFetch with retries = N invokes paidFetch at most N + 1 times,
\* the k-th re-attempt is preceded by exactly one sleep of k * 5000 ms, and
\* when every attempt fails with a transient signal there are N + 1 attempts,
\* the sleeps 5000, 10000, ..., N * 5000 in that order (5000, 10000, 15000
\* for the default N = 3), and no sleep after the last attempt.
C3_LinearBackoff ==
    /\ fn = "safe" =>
          /\ nAttempts <= retries + 1
          /\ sleeps = LinearDelays(Len(sleeps))
          /\ Len(sleeps) = IF sleeping = "backoff" THEN nAttempts
                           ELSE nAttempts - 1
    /\ (prev.fn = "safe" /\ prev.allSignal /\ prev.kind = "throw") =>
          /\ prev.nAttempts = prev.retries + 1
          /\ prev.sleeps = LinearDelays(prev.retries)
          /\ prev.retries = 3 => prev.sleeps = <<5000, 10000, 15000>>

\* safePaidFetch with the default retries gave up after four transient failures
C3_Witness ==
    /\ script = "safe" /\ pc = "done"
    /\ prev.retries = 3 /\ prev.allSignal /\ prev.kind = "throw"
    /\ prev.nAttempts = 4 /\ Len(prev.sleeps) = 3

\* C4: tryWithRetry with retries = N invokes paidFetch at most N + 1 times,
\* every attempt after the first is preceded by exactly one sleep of 3000 ms
\* and the first by none; with N = 1, a first attempt that fails with a 504
\* and a second that succeeds give one 3000 ms sleep, two attempts, and the
\* second attempt's result, without an error.
C4_FixedRetryDelay ==
    /\ fn = "try" =>
          /\ nAttempts <= retries + 1
          /\ sleeps = [k \in 1..Len(sleeps) |-> 3000]
          /\ Len(sleeps) = IF sleeping = "backoff" THEN nAttempts
                           ELSE nAttempts - 1
    /\ prev.fn = "try" =>
          /\ prev.nAttempts <= prev.retries + 1
          /\ prev.sleeps = [k \in 1..(prev.nAttempts - 1) |-> 3000]
    /\ (prev.fn = "try" /\ prev.retries = 1 /\ prev.firstErr.status = 504
        /\ prev.nAttempts = 2 /\ prev.nFails = 1) =>
          /\ prev.sleeps = <<3000>>
          /\ prev.kind = "ok"
          /\ prev.price \in Amounts

\* tryWithRetry(path, label, 1): a 504, then a success
C4_Witness ==
    /\ script = "try" /\ pc = "done"
    /\ prev.retries = 1 /\ prev.firstErr.status = 504
    /\ prev.nAttempts = 2 /\ prev.kind = "ok"

\* the signals the specification calls transient, matched as it says they
\* are: by a substring of the failure's message (its status included):
\* gateway timeout, service unavailable, internal server error, rate limiting
TransientMarkers == {S504, STimeout, S503, S500, S429, STooManyRequests}

IndicatesTransient(err) ==
    \E p \in TransientMarkers : Includes(Message(err), p)

CarriesTimeoutMarker(err) ==
    \/ err.kind \in {"protocol", "payment"} /\ err.status \in {504, 503}
    \/ err.kind = "payment" /\ err.body \in {"ident", "slow"}

\* the failure indicates one of the four signals the claim lists, 504, 503,
\* 500, 429 / "Too Many Requests", by its status or its message
IndicatesListed(err) ==
    \E p \in TransientMarkers \ {STimeout} : Includes(Message(err), p)

\* C6 as stated: every retry loop classifies a failure as transient iff it
\* signals 504, 503, 500 or 429 / "Too Many Requests"; in particular
\* tryWithRetry retries a 500 or a 429 and returns null once its retries are
\* exhausted on such failures.
C6_SameClassificationEverywhere ==
    /\ (InLoop /\ nFails > 0) => IndicatesListed(lastErr)
    /\ (prev.fn # "none" /\ prev.nFails > 0 /\ prev.retries >= 1) =>
          (prev.nAttempts >= 2 <=> IndicatesListed(prev.firstErr))
    /\ (prev.fn = "try" /\ prev.nFails = prev.nAttempts /\ prev.allSignal) =>
          /\ prev.kind = "null"
          /\ prev.nAttempts = prev.retries + 1

\* C6, amended: safePaidFetch classifies as transient every failure that
\* signals 504, 503, 500 or 429 / "Too Many Requests"; tryWithRetry every
\* failure that signals 504 or 503, and no failure that signals 500 or 429 /
\* "Too Many Requests" without also carrying 504, 503 or "timeout" in its
\* message: such a failure is thrown after one attempt, null is not returned.
C6_PerLoopClassification ==
    /\ (prev.fn = "safe" /\ prev.retries >= 1 /\ prev.nFails > 0
        /\ SignalsTransient(prev.firstErr)) => prev.nAttempts >= 2
    /\ (prev.fn = "safe" /\ prev.nFails = prev.nAttempts /\ prev.allSignal) =>
          prev.nAttempts = prev.retries + 1
    /\ (prev.fn = "try" /\ prev.retries >= 1 /\ prev.nFails > 0
        /\ prev.firstErr.status \in {504, 503}) => prev.nAttempts >= 2
    /\ (prev.fn = "try" /\ prev.nFails > 0
        /\ SignalsTransient(prev.lastErr)
        /\ ~CarriesTimeoutMarker(prev.lastErr)) =>
          /\ prev.kind = "throw"
          /\ prev.err = prev.lastErr
    /\ (InLoop /\ fn = "try" /\ nFails > 0) => CarriesTimeoutMarker(lastErr)

\* tryWithRetry threw a 500 after one attempt although retries remained
C6_Witness ==
    /\ prev.fn = "try" /\ prev.retries >= 1
    /\ prev.firstErr.status = 500 /\ prev.firstErr.body \in {"none", "plain"}
    /\ prev.nAttempts = 1 /\ prev.kind = "throw"

\* C7 as stated: a protocol failure (initial status other than 402, whatever
\* it is) is never retried: no attempt follows it and it reaches the caller
\* after exactly one attempt.
C7_ProtocolNeverRetried ==
    /\ (InLoop /\ nFails > 0) => lastErr.kind # "protocol"
    /\ (prev.fn # "none" /\ prev.firstErr.kind = "protocol") =>
          /\ prev.nAttempts = 1
          /\ prev.kind = "throw"
          /\ prev.err = prev.firstErr

\* the initial statuses each loop retries
LoopStatuses(f) == IF f = "safe" THEN {504, 500, 503, 429} ELSE {504, 503}

\* C7, amended: a protocol failure is retried exactly when its status is one
\* the enclosing loop retries (safePaidFetch: 504, 500, 503, 429;
\* tryWithRetry: 504, 503) and attempts remain; with any other status no
\* attempt follows it and it is thrown to the caller, after exactly one
\* attempt when it is the first.
C7_ProtocolRetriedByStatus ==
    /\ (InLoop /\ nFails > 0 /\ lastErr.kind = "protocol") =>
          lastErr.status \in LoopStatuses(fn)
    /\ (prev.fn # "none" /\ prev.nFails = prev.nAttempts
        /\ prev.lastErr.kind = "protocol") =>
          IF prev.lastErr.status \in LoopStatuses(prev.fn)
          THEN prev.nAttempts = prev.retries + 1
          ELSE /\ prev.kind = "throw"
               /\ prev.err = prev.lastErr
               /\ prev.firstErr.kind = "protocol"
                  /\ prev.firstErr.status \notin LoopStatuses(prev.fn)
                    => prev.nAttempts = 1

\* a protocol failure with status 504 was retried, one with 400 was thrown
C7_Witness ==
    /\ prev.fn = "safe" /\ prev.firstErr = ProtocolErr(504)
    /\ prev.nAttempts = 2 /\ prev.lastErr = ProtocolErr(400)
    /\ prev.kind = "throw"

\* C8 as stated: a payment failure is retried only if the status of the
\* resend is in the transient set; with another status (400, say) it is fatal
\* after one attempt, whatever the body excerpt in its message says.
C8_PaymentRetriedByStatusOnly ==
    /\ (InLoop /\ nFails > 0 /\ lastErr.kind = "payment") =>
          lastErr.status \in TransientStatuses
    /\ (prev.fn # "none" /\ prev.firstErr.kind = "payment"
        /\ prev.firstErr.status \notin TransientStatuses) =>
          /\ prev.nAttempts = 1
          /\ prev.kind = "throw"
          /\ prev.err = prev.firstErr

\* C9 as stated: run() tries PRIMARY, then FALLBACK, and nothing after the
\* first success; FALLBACK is attempted iff PRIMARY exhausted its retries on
\* a transient failure; a non-transient failure of PRIMARY propagates and
\* FALLBACK is never attempted.
C9_FallbackOnlyAfterTransientExhaustion ==
    script = "opp" =>
        /\ epOrder \in {<<>>, <<"PRIMARY">>, <<"PRIMARY", "FALLBACK">>}
        /\ prev.kind = "ok" => ~InLoop /\ pc = "end"
        /\ prev.ep = "PRIMARY" =>
              (Len(epOrder) = 2 <=>
                  /\ prev.nFails = prev.nAttempts
                  /\ prev.nAttempts = prev.retries + 1
                  /\ IndicatesTransient(prev.lastErr))
        /\ (prev.ep = "PRIMARY" /\ prev.nFails = prev.nAttempts
            /\ ~IndicatesTransient(prev.lastErr)) =>
              /\ pc = "crash"
              /\ Len(epOrder) = 1

\* C9, amended: run() tries PRIMARY, then FALLBACK, and nothing after the
\* first success; FALLBACK is attempted iff PRIMARY exhausted its retries on
\* a failure tryWithRetry treats as transient, one carrying 504, 503 or
\* "timeout"; every other failure of PRIMARY, a 500 or a 429 included,
\* propagates and FALLBACK is never attempted.
C9_FallbackAfterTimeoutExhaustion ==
    script = "opp" =>
        /\ epOrder \in {<<>>, <<"PRIMARY">>, <<"PRIMARY", "FALLBACK">>}
        /\ prev.kind = "ok" => ~InLoop /\ pc = "end"
        /\ prev.ep = "PRIMARY" =>
              (Len(epOrder) = 2 <=>
                  /\ prev.nFails = prev.nAttempts
                  /\ prev.nAttempts = prev.retries + 1
                  /\ CarriesTimeoutMarker(prev.lastErr))
        /\ (prev.ep = "PRIMARY" /\ prev.nFails = prev.nAttempts
            /\ ~CarriesTimeoutMarker(prev.lastErr)) =>
              /\ pc = "crash"
              /\ exitCode = 1
              /\ Len(epOrder) = 1

\* FALLBACK is in flight after PRIMARY failed twice with a gateway timeout
C9_Witness ==
    /\ script = "opp" /\ pc = "fallback" /\ InLoop
    /\ epOrder = <<"PRIMARY", "FALLBACK">>
    /\ prev.ep = "PRIMARY" /\ prev.kind = "null" /\ prev.nAttempts = 2
    /\ prev.lastErr.status = 504

PrevExhausted ==
    /\ prev.fn # "none"
    /\ prev.nAttempts = prev.retries + 1
    /\ prev.nFails = prev.nAttempts

\* C11 as stated: when an entry of the fallback plan of the opportunities
\* script exhausts its retries on transient failures its tryWithRetry returns
\* null and nothing is thrown out of run(); when both entries do, the run ends
\* on the 'Both endpoints timed out' path with exit status 1 and no result
\* printed.
C11_ExhaustionYieldsNull ==
    script = "opp" =>
        /\ (PrevExhausted /\ IndicatesTransient(prev.firstErr)
            /\ IndicatesTransient(prev.lastErr)) =>
              /\ prev.kind = "null"
              /\ pc # "crash"
        /\ (PrevExhausted /\ prev.ep = "FALLBACK" /\ prev.kind = "null") =>
              /\ pc = "timedout" /\ exitCode = 1
              /\ printed = NoPrint

\* C11, amended: when an entry of the fallback plan exhausts its retries on
\* failures tryWithRetry treats as transient (504, 503 or "timeout" in the
\* message) its tryWithRetry returns null and nothing is thrown out of run();
\* when both entries do, the run ends on the 'Both endpoints timed out' path:
\* that diagnostic alone on standard error, exit status 1, no result printed.
\* An entry whose last failure signals 500 or 429 without such a marker
\* throws it, and the run ends with a fatal error instead.
C11_TimeoutExhaustionYieldsNull ==
    script = "opp" =>
        /\ (PrevExhausted /\ CarriesTimeoutMarker(prev.lastErr)) =>
              /\ prev.kind = "null"
              /\ pc # "crash"
        /\ (PrevExhausted /\ prev.ep = "FALLBACK" /\ prev.kind = "null") =>
              /\ pc = "timedout" /\ exitCode = 1
              /\ printed = NoPrint
              /\ stderr = <<"Both endpoints timed out">>
              /\ epOrder = <<"PRIMARY", "FALLBACK">>
        /\ pc = "timedout" =>
              /\ PrevExhausted /\ prev.ep = "FALLBACK" /\ prev.kind = "null"
              /\ CarriesTimeoutMarker(prev.lastErr)
        /\ (PrevExhausted /\ SignalsTransient(prev.lastErr)
            /\ ~CarriesTimeoutMarker(prev.lastErr)) =>
              /\ prev.kind = "throw"
              /\ pc = "crash" /\ exitCode = 1

\* both endpoints answered 503 and 504 until their retries were used up
C11_Witness ==
    /\ script = "opp" /\ pc = "timedout" /\ exitCode = 1
    /\ epOrder = <<"PRIMARY", "FALLBACK">>
    /\ prev.ep = "FALLBACK" /\ prev.kind = "null" /\ prev.nAttempts = 2
    /\ prev.firstErr.status = 503 /\ prev.lastErr.status = 504

\* C12: whenever run() of the opportunities script reports a result,
\* endpointUsed names the endpoint whose paidFetch produced it: PRIMARY iff
\* the first tryWithRetry returned a result, FALLBACK iff the primary
\* exhausted its retries (returned null) and the fallback call succeeded; the
\* price and the data reported are those of that same call.
C12_EndpointUsedNamesTheSource ==
    script = "opp" =>
        /\ (pc = "fallback" /\ InLoop) =>
              /\ prev.ep = "PRIMARY" /\ prev.kind = "null"
              /\ PrevExhausted
              /\ printed = NoPrint
        /\ printed.what = "result" <=> pc = "end"
        /\ pc = "end" =>
              /\ prev.kind = "ok"
              /\ printed.ep = prev.ep
              /\ endpointUsed = prev.ep
              /\ printed.cost = prev.price
              /\ printed.data = prev.data
              /\ printed.ep = "PRIMARY" <=> epOrder = <<"PRIMARY">>
              /\ printed.ep = "FALLBACK" <=> epOrder = <<"PRIMARY", "FALLBACK">>
              /\ exitCode = 0

\* the fallback's second attempt succeeded after the primary gave up
C12_Witness ==
    /\ script = "opp" /\ pc = "end"
    /\ printed.what = "result" /\ printed.ep = "FALLBACK"
    /\ printed.cost = 2500 /\ printed.data = 2
    /\ prev.ep = "FALLBACK" /\ prev.nAttempts = 2 /\ prev.kind = "ok"

\* C13: in the two-branch parallel joins, for every interleaving and every
\* combination of outcomes, the failure of one branch never aborts or
\* discards the other: each branch runs to its own end, the join completes
\* once both have, with per branch that branch's own result or null, and the
\* slot of a branch is null if and only if its paidFetch failed.
C13_JoinIsolatesFailures ==
    script \in JoinScripts =>
        /\ pc # "crash"
        /\ \A b \in Branches :
              /\ branches[b].slot = "null" <=> branches[b].failed
              /\ branches[b].slot = "result" =>
                    /\ branches[b].price \in Amounts
                    /\ branches[b].data \in 0..MaxItems
              /\ (pc = "join" /\ branches[b].slot = "pending") =>
                    branches[b].pf \in {"initial", "signing", "paid"}
        /\ pc = "end" <=>
              (pc # "start" /\ \A b \in Branches : branches[b].slot # "pending")
        /\ pc = "end" =>
              /\ printed.what = "total"
              /\ printed.cost = SlotPrice(branches["A"]) + SlotPrice(branches["B"])
              /\ Len(stderr) = Cardinality({b \in Branches : branches[b].failed})

\* the join completed with null for the branch that failed and the result of
\* the other branch
C13_Witness ==
    /\ script \in JoinScripts /\ pc = "end"
    /\ branches["A"].slot = "null" /\ branches["A"].err = ProtocolErr(500)
    /\ branches["B"].slot = "result" /\ branches["B"].data = 2
    /\ printed.cost = 2500

\* C17 as stated: in the parallel scripts, when both branches of the join
\* fail, the process prints a diagnostic to standard error and exits with a
\* non-zero status; it never ends with a success status after obtaining no
\* data.
C17_NoDataIsAFailureExit ==
    (script \in JoinScripts /\ exitCode # -1
     /\ \A b \in Branches : branches[b].failed) =>
        /\ stderr # <<>>
        /\ exitCode # 0

\* C14: in the Meteora scripts every call() but the first of the run sleeps
\* CALL_DELAY_MS = 5000 ms before it issues its first request, whether the
\* call before it returned or threw; the first call() takes no throttle sleep.
C14_ThrottleEveryCallButTheFirst ==
    script \in Meteora =>
        /\ callCount = 1 => waited = 0
        /\ callCount > 1 => waited = 5000
        /\ sleeping = "throttle" =>
              /\ nCalls > 1
              /\ nCalls = callCount + 1
              /\ pf = "none"
        /\ (nCalls > 1 /\ prev.kind = "none") => waited = 5000
        /\ InLoop => nCalls = callCount

\* the third call is in flight after its throttle sleep, after one call that
\* returned and one that threw
C14_Witness ==
    /\ script \in Meteora /\ InLoop
    /\ callCount = 3 /\ nAttempts = 1 /\ waited = 5000
    /\ failedCalls > 0 /\ okCalls > 0

\* the steps of a handshake that ran to its end
FullHandshake == <<"request", "quote", "sign", "resend">>

\* C15: paidFetch returns a result only if its initial response had status
\* 402 and its paid resend status 200; in every other case it throws and no
\* price reaches the caller, so an exchange that did not succeed is never
\* reported as paid.
C15_ResultOnlyAfter402And200 ==
    script \in {"safe", "try"} =>
        /\ prev.kind = "ok" =>
              /\ hs.initial = 402 /\ hs.paid = 200
              /\ hs.steps = FullHandshake
              /\ prev.price \in Amounts
              /\ prev.nFails = prev.nAttempts - 1
        /\ (pf = "none" /\ hs.steps # <<>>
            /\ (hs.initial # 402 \/ hs.paid # 200)) =>
              /\ prev.kind # "ok"
              /\ prev.price = 0
              /\ paidSum = 0
              /\ nFails + prev.nFails > 0
        /\ prev.kind \in {"throw", "null"} =>
              /\ prev.price = 0 /\ paidSum = 0
              /\ prev.nFails = prev.nAttempts
        /\ paidSum = prev.price

\* a loop returned the result of a paidFetch whose two responses were 402 and
\* 200, after an attempt whose resend was answered 503
C15_Witness ==
    /\ script \in {"safe", "try"} /\ pc = "done"
    /\ prev.kind = "ok" /\ prev.price = 2500
    /\ prev.firstErr = PaymentErr(503, "plain")
    /\ hs.initial = 402 /\ hs.paid = 200

\* s is an initial segment of t
IsPrefix(s, t) == Len(s) <= Len(t) /\ \A i \in 1..Len(s) : s[i] = t[i]

\* C18: within one paidFetch invocation the steps of the handshake occur in
\* the order initial request, quote parsing, payment signing, paid resend, at
\* most once each; quote parsing, signing and the resend only after an
\* initial status 402, so that an invocation makes at most two requests and
\* signs at most one payment.
C18_HandshakeOrder ==
    script \in {"safe", "try"} =>
        /\ IsPrefix(hs.steps, FullHandshake)
        /\ Len(hs.steps) > 1 => hs.initial = 402
        /\ hs.initial \notin {0, 402} =>
              /\ hs.steps = <<"request">>
              /\ hs.paid = 0
              /\ pf = "none"
        /\ hs.paid # 0 => hs.steps = FullHandshake
        /\ pf = "initial" => hs.steps = <<"request">> /\ hs.initial = 0
        /\ pf = "signing" => hs.steps = <<"request", "quote", "sign">>
        /\ pf = "paid" => hs.steps = FullHandshake /\ hs.paid = 0
        /\ Cardinality({i \in DOMAIN hs.steps :
                           hs.steps[i] \in {"request", "resend"}}) <= 2
        /\ Cardinality({i \in DOMAIN hs.steps : hs.steps[i] = "sign"}) <= 1

\* an invocation whose initial response was a 500 ended after its one request
C18_Witness ==
    /\ script \in {"safe", "try"} /\ pc = "done"
    /\ hs.initial = 500 /\ hs.steps = <<"request">>
    /\ prev.kind = "throw" /\ prev.err = ProtocolErr(500)

\* C16 as stated: a step whose request fails non-transiently or exhausts its
\* retries terminates the whole run with a failure exit status and no later
\* request, a failed per-pool fee-analysis call and a failed per-LP profile
\* call of the Meteora scripts included (the primary of step 1, which has a
\* fallback, left aside).
C16_FailedStepEndsTheRun ==
    (script \in Meteora /\ prev.kind = "throw" /\ prev.ep # "pools_fees") =>
        /\ pc = "crash" /\ exitCode = 1
        /\ ~InLoop /\ sleeping = "none"

\* C16, amended: in the Meteora scripts a failed call terminates the run,
\* with exit status 1 and no later request, only where nothing catches it:
\* the fallback call of step 1 and the top-LPs call of step 3. A failed
\* per-pool fee-analysis call (recorded with fees null) or per-LP profile
\* call is caught and the run goes on with the next item and the later
\* steps; the run can end with exit status 0 after such failures.
C16_UncaughtFailureEndsTheRun ==
    script \in Meteora =>
        /\ (prev.kind = "throw" /\ prev.ep \in {"pools_volume", "lps_top"}) =>
              /\ pc = "crash" /\ exitCode = 1
              /\ ~InLoop /\ sleeping = "none"
              /\ stderr = <<"Fatal error">>
        /\ pc = "crash" =>
              /\ prev.kind = "throw"
              /\ prev.ep \in {"pools_volume", "lps_top"}
              /\ ~InLoop /\ sleeping = "none"
              /\ printed = NoPrint
        /\ (prev.kind = "throw" /\ prev.ep = "fee_analysis") =>
              /\ pc \in {"step2", "step3"} /\ exitCode = -1
              /\ sleeping = "throttle"
              /\ feeResults[Len(feeResults)] = FALSE
        /\ (prev.kind = "throw" /\ prev.ep = "lps_profile") =>
              \/ pc = "step4" /\ exitCode = -1 /\ sleeping = "throttle"
              \/ pc = "end" /\ exitCode = 0 /\ printed.what = "summary"
        /\ exitCode = 1 <=> pc = "crash"

\* the yield script ran to its summary although the fee-analysis call of its
\* first pool and a profile call had failed
C16_Witness ==
    /\ script = "yield" /\ pc = "end" /\ exitCode = 0
    /\ feeResults = <<FALSE, TRUE>>
    /\ nLPs = 2 /\ failedCalls = 2 /\ okCalls = 4
    /\ prev.ep = "lps_profile"

\* C19 as stated: when all retries + 1 attempts fail with transient signals,
\* safePaidFetch throws the error of the final attempt, and tryWithRetry
\* throws nothing and returns null.
C19_LastErrorOrNull ==
    /\ (prev.fn = "safe" /\ PrevExhausted /\ prev.allSignal) =>
          /\ prev.kind = "throw"
          /\ prev.err = prev.lastErr
    /\ (prev.fn = "try" /\ PrevExhausted /\ prev.allSignal) =>
          /\ prev.kind = "null"
          /\ prev.err = NoErr

\* C19, amended: when all retries + 1 attempts fail with transient signals,
\* safePaidFetch throws the error of the final attempt; tryWithRetry throws
\* nothing and returns null when the failure of its final attempt carries
\* 504, 503 or "timeout", and throws the error of the final attempt when that
\* one signals 500 or 429 / "Too Many Requests" without such a marker.
C19_LastErrorOrNullOnTimeout ==
    /\ (prev.fn = "safe" /\ PrevExhausted) =>
          /\ prev.kind = "throw"
          /\ prev.err = prev.lastErr
          /\ ~prev.trailing
    /\ (prev.fn = "try" /\ PrevExhausted
        /\ CarriesTimeoutMarker(prev.lastErr)) =>
          /\ prev.kind = "null"
          /\ prev.err = NoErr
    /\ (prev.fn = "try" /\ PrevExhausted /\ prev.allSignal
        /\ ~CarriesTimeoutMarker(prev.lastErr)) =>
          /\ prev.kind = "throw"
          /\ prev.err = prev.lastErr

\* safePaidFetch threw the 429 of its third attempt, not the 504 of its first
C19_Witness ==
    /\ script = "safe" /\ pc = "done"
    /\ prev.retries = 2 /\ prev.nAttempts = 3 /\ prev.allSignal
    /\ prev.firstErr = ProtocolErr(504)
    /\ prev.lastErr = PaymentErr(429, "plain")
    /\ prev.kind = "throw" /\ prev.err = PaymentErr(429, "plain")

\* C20 as stated: tryWithRetry returns null if and only if its last attempt
\* was attempt number retries and failed with a transient signal; a failure
\* that is not transient, at whatever attempt, is thrown and null is never
\* returned for it.
C20_NullIffExhaustedOnTransient ==
    prev.fn = "try" =>
        /\ prev.kind = "null" <=>
              (PrevExhausted /\ IndicatesTransient(prev.lastErr))
        /\ (prev.nFails = prev.nAttempts
            /\ ~IndicatesTransient(prev.lastErr)) =>
              /\ prev.kind = "throw"
              /\ prev.err = prev.lastErr

\* C20, amended: tryWithRetry returns null if and only if its last attempt
\* was attempt number retries and failed with a failure whose message carries
\* 504, 503 or "timeout"; any other failure, a 500 or a 429 included, at
\* whatever attempt and after whatever earlier failures, is thrown and null
\* is never returned for it.
C20_NullIffExhaustedOnTimeout ==
    /\ prev.fn = "try" =>
          /\ prev.kind = "null" <=>
                (PrevExhausted /\ CarriesTimeoutMarker(prev.lastErr))
          /\ (prev.nFails = prev.nAttempts
              /\ ~CarriesTimeoutMarker(prev.lastErr)) =>
                /\ prev.kind = "throw"
                /\ prev.err = prev.lastErr
          /\ prev.kind = "null" => ~prev.trailing
    /\ (fn = "try" /\ InLoop /\ nFails > 0) => CarriesTimeoutMarker(lastErr)

\* tryWithRetry threw the 400 of its second attempt, after a 504, with
\* retries left
C20_Witness ==
    /\ script = "try" /\ pc = "done"
    /\ prev.retries = 2 /\ prev.nAttempts = 2
    /\ prev.firstErr = ProtocolErr(504)
    /\ prev.kind = "throw" /\ prev.err = PaymentErr(400, "plain")

\* C21: in safePaidFetch and tryWithRetry an attempt that succeeds ends the
\* loop at once: no attempt and no sleep follows it inside the invocation,
\* and the data and the price returned are those of that attempt.
C21_SuccessEndsTheLoop ==
    script \in {"safe", "try"} =>
        /\ InLoop =>
              nFails = IF pf # "none" THEN nAttempts - 1 ELSE nAttempts
        /\ prev.kind = "ok" =>
              /\ pc = "done" /\ ~InLoop
              /\ prev.nFails = prev.nAttempts - 1
              /\ Len(prev.sleeps) = prev.nAttempts - 1
              /\ hs.paid = 200
              /\ prev.price = hs.quote
              /\ prev.data = hs.data

\* the second of four attempts succeeded and its result was returned
C21_Witness ==
    /\ script \in {"safe", "try"} /\ pc = "done"
    /\ prev.retries = 3 /\ prev.nAttempts = 2 /\ Len(prev.sleeps) = 1
    /\ prev.kind = "ok" /\ prev.price = 1000 /\ prev.data = 1

\* C22: when every paidFetch and every sleep completes, every invocation of
\* safePaidFetch and tryWithRetry returns or throws, after at most
\* retries + 1 attempts, and run() of the opportunities script finishes after
\* at most 4 paidFetch invocations, at most 2 per endpoint, the fallback
\* starting with a retry budget of its own.
C22_LoopsAndRunTerminate ==
    /\ <>(pc \in {"done", "end", "crash", "timedout"} /\ ~InLoop)
    /\ [](InLoop => nAttempts <= retries + 1)
    /\ [](script = "opp" =>
              /\ nFetches <= 4
              /\ nAttempts <= 2 /\ prev.nAttempts <= 2
              /\ (pc = "fallback" /\ InLoop) =>
                    /\ retries = 1
                    /\ nFetches = prev.nAttempts + nAttempts)

\* run() finished after four paidFetch invocations, two per endpoint
C22_Witness ==
    /\ script = "opp" /\ pc = "timedout" /\ nFetches = 4
    /\ prev.ep = "FALLBACK" /\ prev.nAttempts = 2

\* C23: in the parallel scripts nothing is printed of either result, and the
\* total cost is not computed, until both branches have settled, in whatever
\* order they do; the total then reported is the sum of the prices of the
\* branches that succeeded, a branch that failed contributing 0 (even if it
\* had been quoted a price).
C23_TotalAfterBothSettled ==
    script \in JoinScripts =>
        /\ pc \in {"start", "join"} => printed = NoPrint /\ exitCode = -1
        /\ printed.what = "total" =>
              \A b \in Branches :
                  branches[b].pf = "none" /\ branches[b].slot # "pending"
        /\ pc = "end" =>
              /\ printed.what = "total"
              /\ printed.cost =
                    (IF branches["A"].failed THEN 0 ELSE branches["A"].quoted)
                    + (IF branches["B"].failed THEN 0 ELSE branches["B"].quoted)
        /\ \A b \in Branches :
              branches[b].slot = "result" =>
                  branches[b].price = branches[b].quoted

\* the total is the price of the second branch alone: the first had been
\* quoted 2500 and then failed at its resend
C23_Witness ==
    /\ script \in JoinScripts /\ pc = "end"
    /\ branches["A"].failed /\ branches["A"].quoted = 2500
    /\ branches["B"].slot = "result" /\ branches["B"].price = 1000
    /\ printed.what = "total" /\ printed.cost = 1000

\* the paidFetch invocations that have begun and not yet returned or thrown
InFlight ==
    (IF pf # "none" THEN 1 ELSE 0)
    + Cardinality({b \in Branches : branches[b].pf # "none"})

\* C24: in the sequential scripts (the Meteora scripts, the opportunities
\* script, query.ts) at most one paidFetch is in flight at any time: a
\* request, be it a retry, a fallback, a per-item call or the next step, is
\* issued only after the paidFetch before it has returned or thrown.
C24_OnePaidFetchAtATime ==
    /\ InFlight <= 1
    /\ pf # "none" => sleeping = "none"
    /\ InLoop => nAttempts = nFails + (IF pf # "none" THEN 1 ELSE 0)
    /\ (script \in Meteora /\ (InLoop \/ sleeping = "throttle")) =>
          nCalls = okCalls + failedCalls + 1
    /\ (script = "opp" /\ pc = "fallback" /\ InLoop) =>
          prev.ep = "PRIMARY" /\ prev.kind = "null"
    /\ (script = "query" /\ pf # "none") =>
          /\ Len(epOrder) = idx
          /\ okCalls = idx - 1
          /\ nAttempts = 1

\* query.ts is waiting for the answer to its third request, the first two
\* having returned
C24_Witness ==
    /\ script = "query" /\ pf = "paid" /\ idx = 3
    /\ okCalls = 2 /\ totalCost = 3500
    /\ InFlight = 1

\* C25: in the Meteora scripts any two consecutive paidFetch invocations of a
\* run, two attempts of one call or the last attempt of a call and the first
\* of the next, are separated by a sleep of at least 5000 ms: a throttle
\* sleep of 5000 ms or a backoff sleep of (attempt + 1) * 5000 ms.
C25_NoBackToBackRequests ==
    (script \in Meteora /\ pace.began) =>
        /\ pace.gap = -1 \/ pace.gap >= 5000
        /\ pace.gap = -1 => callCount = 1
        /\ (InLoop /\ nAttempts = 1 /\ callCount = 1) => pace.gap = -1
        /\ (InLoop /\ nAttempts > 1) =>
              pace.gap = (nAttempts - 1) * 5000
        /\ (InLoop /\ nAttempts = 1 /\ callCount > 1) => pace.gap = 5000

\* the first attempt of a call is in flight 5000 ms after the last attempt of
\* the call before it, which threw
C25_Witness ==
    /\ script \in Meteora /\ pf = "initial"
    /\ callCount = 2 /\ nAttempts = 1 /\ failedCalls = 1
    /\ pace.gap = 5000

\* C26 as stated: in the yield script the number printed as 'API calls made'
\* is the number of call() invocations made during the run, the value of
\* callCount, whatever the outcomes of the steps, the fallback of step 1
\* included.
C26_PrintedCallsIsCallCount ==
    (script = "yield" /\ pc = "end") =>
        /\ printed.what = "summary"
        /\ printed.calls = callCount
        /\ printed.calls = nCalls

\* the entries of feeResults whose fees are null
NullFees == {i \in DOMAIN feeResults : ~feeResults[i]}

\* step 1 of the yield script went to its fallback
UsedFallback == Len(epOrder) >= 2 /\ epOrder[2] = "pools_volume"

\* the entries of feeResults, the position of the per-item loops and the
\* failures counted agree
PerItemState ==
    script \in Meteora =>
        /\ (script = "yield" /\ pc = "step2") =>
              Len(feeResults) = idx /\ idx < Min(nPools, 5)
        /\ (script = "yield" /\ pc \in {"step3", "step4", "end"}) =>
              Len(feeResults) = Min(nPools, 5)
        /\ (script = "yield" /\ pc \in {"step2", "step3"}) =>
              Cardinality(NullFees)
                  = failedCalls - (IF UsedFallback THEN 1 ELSE 0)
        /\ prev.ep = "fee_analysis" =>
              /\ feeResults[Len(feeResults)] = (prev.kind = "ok")
              /\ pc \in {"step2", "step3"}
        /\ prev.ep = "lps_profile" => pc \in {"step4", "end"}
        /\ pc = "step4" => idx < Min(nLPs, 3)
        /\ pc = "end" => idx = Min(nLPs, 3)
        /\ prev.kind = "throw" => prev.price = 0 /\ totalCost = paidSum

\* what the end of a per-item call changes
PerItemStep ==
    script \in Meteora =>
        /\ failedCalls' > failedCalls => totalCost' = totalCost
        /\ Len(feeResults') >= Len(feeResults)
        /\ SubSeq(feeResults', 1, Len(feeResults)) = feeResults
        /\ (pc = "step2" /\ failedCalls' > failedCalls) =>
              feeResults' = Append(feeResults, FALSE)
        /\ (pc = "step2" /\ okCalls' > okCalls) =>
              feeResults' = Append(feeResults, TRUE)
        /\ (pc = "step4" /\ okCalls' + failedCalls' > okCalls + failedCalls) =>
              idx' = idx + 1 /\ pc' \in {"step4", "end"}

\* C27: in the Meteora scripts the failure of a per-item call is caught and
\* the calls for the remaining items follow: every pool selected for fee
\* analysis gets exactly one entry in feeResults, in selection order, its
\* fees null exactly if its call failed, every LP selected gets its profile
\* call, and a failed item leaves totalCost as it was.
C27_PerItemFailureIsLocal == []PerItemState /\ [][PerItemStep]_vars

\* the second pool's fee analysis failed after the first one's succeeded, and
\* the run went on to its summary
C27_Witness ==
    /\ script = "yield" /\ pc = "end"
    /\ feeResults = <<TRUE, FALSE>>
    /\ nPools = 2 /\ failedCalls >= 1 /\ totalCost > 0

\* ------------------------------------------------------------------------
\* C28
\* ------------------------------------------------------------------------

\* the header names under which a payment signature travels
PaymentHeaderNames == {"PAYMENT-SIGNATURE", "X-PAYMENT"}

\* C28: the paid resend of paidFetch targets the same URL with the same HTTP
\* method and the same body as the initial request, keeps every header of the
\* initial request (Content-Type: application/json when the call has a body,
\* none otherwise) and differs from it only by the payment-signature headers
\* added; paidFetch sends the initial request first and at most one resend.
C28_ResendRepeatsTheRequest ==
    script = "paid" =>
        /\ Len(sent) <= 2
        /\ (pc # "start") => Len(sent) >= 1
        /\ pf \in {"initial", "signing"} => Len(sent) = 1
        /\ (pf = "paid" \/ prev.kind = "ok") => Len(sent) = 2
        /\ Len(sent) >= 1 =>
             /\ sent[1].url = BASE_URL \o args.path
             /\ sent[1].method =
                  (IF args.method = "none" THEN "GET" ELSE args.method)
             /\ args.body = "none" =>
                  sent[1].body = "none" /\ DOMAIN sent[1].headers = {}
             /\ args.body # "none" =>
                  /\ sent[1].body \notin {"none", args.body}
                  /\ DOMAIN sent[1].headers = {"Content-Type"}
                  /\ sent[1].headers["Content-Type"] = "application/json"
        /\ Len(sent) = 2 =>
             /\ sent[2].url = sent[1].url
             /\ sent[2].method = sent[1].method
             /\ sent[2].body = sent[1].body
             /\ \A n \in DOMAIN sent[1].headers :
                  /\ n \in DOMAIN sent[2].headers
                  /\ sent[2].headers[n] = sent[1].headers[n]
             /\ DOMAIN sent[2].headers \ DOMAIN sent[1].headers # {}
             /\ DOMAIN sent[2].headers \ DOMAIN sent[1].headers
                  \subseteq PaymentHeaderNames
             /\ DOMAIN sent[2] = DOMAIN sent[1]

\* a POST with a body was quoted, paid and answered
C28_Witness ==
    /\ script = "paid" /\ pc = "done" /\ prev.kind = "ok"
    /\ args.method = "POST" /\ args.body = "lp"
    /\ Len(sent) = 2
    /\ "Content-Type" \in DOMAIN sent[2].headers

\* ------------------------------------------------------------------------
\* C29
\* ------------------------------------------------------------------------

\* C29: for every integer retries >= 0 and every sequence of attempt
\* outcomes, the statements after the retry loops are never reached:
\* safePaidFetch never throws Error("unreachable") and tryWithRetry never
\* returns through the 'return null' after its loop; every exit happens
\* inside the loop body, after 1..retries+1 attempts: a return of the result
\* of the attempt, a throw of the error just caught, or, in tryWithRetry, a
\* null for the error just caught.
C29_AfterTheLoopIsUnreachable ==
    /\ ~prev.trailing
    /\ prev.err # OtherErr("unreachable")
    /\ pc = "done" =>
         /\ prev.nAttempts \in 1..(prev.retries + 1)
         /\ prev.kind \in {"ok", "throw", "null"}
         /\ prev.kind = "ok" => prev.nFails = prev.nAttempts - 1
         /\ prev.kind = "throw" =>
              /\ prev.err = prev.lastErr
              /\ prev.nFails = prev.nAttempts
         /\ prev.kind = "null" =>
              /\ prev.fn = "try"
              /\ prev.nFails = prev.nAttempts
              /\ prev.lastErr # NoErr

\* safePaidFetch fails retryably in every iteration its loop has, and the
\* last catch block throws
C29_Witness ==
    /\ pc = "done" /\ prev.fn = "safe" /\ prev.retries = 2
    /\ prev.nAttempts = 3 /\ prev.nFails = 3
    /\ prev.kind = "throw" /\ SignalsTransient(prev.err)
    /\ Len(prev.sleeps) = 2

====
